---- MODULE Spec2Model ----
(***************************************************************************)
(* Model of the TTS job API of backend/routes.py: the HTTP handlers, the   *)
(* in-memory Job Manager they call (queue, job table, worker pool, the     *)
(* deferred cleanup) and the artifact store (the audio directory).         *)
(*                                                                         *)
(* The handlers are translated from routes.py.  The Job Manager, the       *)
(* workers and load_jobs are not part of the sources at hand; they are     *)
(* modelled from the specification's sections 3 to 5.                      *)
(***************************************************************************)
EXTENDS Integers, Sequences, FiniteSets, TLC

(* ------------------------------ bounds --------------------------------- *)

\* number of job ids add_job issues
MaxJobs == 5
\* size of the large pre-existing artifact store
MaxOld == 50
\* number of times the process is stopped and started again
MaxRestarts == 1
\* number of submissions that can be suspended inside add_job at a time
MaxAdding == 2
\* number of job ids of this run that clients ask about by id
MaxQuery == 2

(* ------------------------- program constants --------------------------- *)

\* all_jobs[:50]
ListLimit == 50
\* len(audio_data) < 100
MinAudioBytes == 100
\* job_info.request.text[:100]
PreviewLen == 100

(* --------------------------- value domains ----------------------------- *)

\* the sizes of the worker pool the Job Manager is constructed with
SmallPool == 1
LargePool == 2
NewIds == 1..MaxJobs
\* artifacts left in the audio directory by earlier runs of the process
OldBase == 100
OldIds(n) == (OldBase + 1)..(OldBase + n)
\* an id no job ever had
UnknownId == 0
\* the ids clients ask about: the first jobs of this run, an unknown id and
\* a file of an earlier run
QueryIds == (1..MaxQuery) \cup {UnknownId, OldBase + 1}

\* the time the process starts at; earlier runs wrote their files before it
ClockStart == 10

\* request texts: empty, blank, padded and plain
Texts == { <<>>, <<" ">>, <<"\t", "\n">>, <<" ", "a">>, <<"a">> }

\* the keys Python draws for str hashing when a process starts
HashSeeds == { 0, 1 }

QUEUED == "queued"
PROCESSING == "processing"
COMPLETED == "completed"
FAILED == "failed"

VARIABLES
    jobs,           \* job_manager.jobs: job_id -> JobInfo
    queue,          \* the pending queue of job ids
    workers,        \* the worker pool: what each worker is doing
    files,          \* AUDIO_DIR: job_id -> the <job_id>.mp3 file
    tasks,          \* BackgroundTasks not yet run: job ids to clean up
    clock,          \* wall clock
    nextId,         \* next fresh job id
    lpc,            \* get_all_jobs: "idle" or "loaded" (after load_jobs)
    completed_jobs, \* get_all_jobs: the result of load_jobs()
    submitted,      \* history: the job ids issued, in submission order
    deleted,        \* history: job ids whose artifact a delete removed
    proc,           \* the running process: its number and its str hash key
    adding          \* tts_endpoint calls suspended in "await add_job(...)":
                    \* the texts of their TTSRequest, in the order they
                    \* will be resumed

vars == <<jobs, queue, workers, files, tasks, clock, nextId, lpc,
          completed_jobs, submitted, deleted, proc, adding>>

\* the worker pool
Workers == DOMAIN workers

\* job_manager.max_concurrent: the size of the worker pool
max_concurrent == Cardinality(Workers)

(* ----------------------------- strings --------------------------------- *)

\* the characters str.strip() removes, as far as the texts here have them
Whitespace == { " ", "\t", "\n" }

RECURSIVE LStrip(_)
LStrip(s) == IF s # <<>> /\ Head(s) \in Whitespace THEN LStrip(Tail(s)) ELSE s

RECURSIVE RStrip(_)
RStrip(s) ==
    IF s # <<>> /\ s[Len(s)] \in Whitespace THEN RStrip(SubSeq(s, 1, Len(s) - 1)) ELSE s

\* str.strip()
Strip(s) == RStrip(LStrip(s))

\* text[:100] + "..." if len(text) > 100 else text
Preview(s) ==
    IF Len(s) > PreviewLen THEN SubSeq(s, 1, PreviewLen) \o <<".", ".", ".">>
    ELSE s

\* the hours the local clock is ahead by while daylight saving time lasts
DstShift == 2
\* the timestamp at which daylight saving time ends and the local clock is
\* set back
FallBack == ClockStart + 1
\* datetime.fromtimestamp(t): the naive local time of a timestamp
LocalTime(t) == IF t < FallBack THEN t + DstShift ELSE t

\* datetime.fromtimestamp(t).isoformat(): the local time in fixed-width
\* decimal fields, without a UTC offset; here two digits
IsoFormat(t) == << LocalTime(t) \div 10, LocalTime(t) % 10 >>

\* Python's str < str: lexicographic, a proper prefix is smaller
RECURSIVE StrLess(_, _)
StrLess(a, b) ==
    IF b = <<>> THEN FALSE
    ELSE IF a = <<>> THEN TRUE
    ELSE IF Head(a) # Head(b) THEN Head(a) < Head(b)
    ELSE StrLess(Tail(a), Tail(b))

(* --------------------------- Job Manager ------------------------------- *)

\* get_queue_size(): jobs not yet COMPLETED or FAILED
QueueSize ==
    Cardinality({ j \in DOMAIN jobs : jobs[j].status \in {QUEUED, PROCESSING} })

\* job_manager.get_job_status(job_id): the status, or None
ManagerStatus(j) == IF j \in DOMAIN jobs THEN jobs[j].status ELSE "none"

\* os.path.exists(os.path.join(AUDIO_DIR, f"{job_id}.mp3"))
AudioExists(j) == j \in DOMAIN files

\* the table with one more record
AddRecord(tbl, j, rec) == [ k \in DOMAIN tbl \cup {j} |-> IF k = j THEN rec ELSE tbl[k] ]

\* the table without the record of j
RemoveRecord(tbl, j) == [ k \in DOMAIN tbl \ {j} |-> tbl[k] ]

SetStatus(tbl, j, s) ==
    IF j \in DOMAIN tbl THEN [ tbl EXCEPT ![j].status = s ] ELSE tbl

\* the store left by earlier runs: n files, the first of size s
OldStore(n, s) ==
    [ i \in OldIds(n) |->
        [ size |-> IF i = OldBase + 1 THEN s ELSE MinAudioBytes + i,
          mtime |-> (i * 7) % ClockStart ] ]

\* the process starts with no jobs and a pool of idle workers, over the
\* audio directory as it is
Start(stores, seeds, pool) ==
    /\ jobs = << >>
    /\ queue = << >>
    /\ workers = [ w \in 1..pool |-> [ pc |-> "idle", job |-> UnknownId ] ]
    /\ files \in stores
    /\ tasks = {}
    /\ clock = ClockStart
    /\ nextId = 1
    /\ lpc = "idle"
    /\ completed_jobs = << >>
    /\ submitted = << >>
    /\ deleted = {}
    /\ proc \in [ run : {0}, seed : seeds ]
    /\ adding = << >>

\* an empty directory and a small one with a truncated file
Init == Start({ OldStore(0, 0), OldStore(2, MinAudioBytes - 1) }, {0}, SmallPool)

\* an empty directory and a large one
ListInit == Start({ OldStore(0, 0), OldStore(MaxOld, MinAudioBytes) }, {0}, SmallPool)

(* ------------------------ POST /tts (tts_endpoint) ---------------------- *)

\* variant: only "not request.text"
TextMissingEmptyOnly(text) == text = << >>

\* not request.text or request.text.strip() == ""
TextMissing(text) == text = << >> \/ Strip(text) = << >>

\* variant: the limit one too high
AtCapacityLoose == QueueSize > max_concurrent * 2 + 1

\* variant: the limit one too low
AtCapacityStrict == QueueSize >= max_concurrent * 2

\* job_manager.get_queue_size() > job_manager.max_concurrent * 2
AtCapacity == QueueSize > max_concurrent * 2

\* JobInfo of a freshly added job
NewJob(text) == [ status |-> QUEUED, created_at |-> clock, text |-> Strip(text) ]

\* the response of POST /tts
TtsResp(text) ==
    IF TextMissing(text) THEN
        [ code |-> 400, job_id |-> UnknownId, queue_size |-> 0 ]
    ELSE IF AtCapacity THEN
        [ code |-> 503, job_id |-> UnknownId, queue_size |-> QueueSize ]
    ELSE
        [ code |-> 200, job_id |-> nextId, queue_size |-> 0 ]

\* job_manager.add_job(request): a QUEUED record under a fresh id, stamped
\* with the current time and appended to the pending queue; the next
\* submission comes at a later time
AddJob(text) ==
    /\ jobs' = AddRecord(jobs, nextId, NewJob(text))
    /\ queue' = Append(queue, nextId)
    /\ nextId' = nextId + 1
    /\ submitted' = Append(submitted, nextId)
    /\ clock' = clock + 1

\* a call of the handler during which "await job_manager.add_job(...)" does
\* not give up the event loop
TtsEndpoint(text) ==
    /\ lpc = "idle"
    /\ IF TtsResp(text).code = 400 THEN
          UNCHANGED <<jobs, queue, clock, nextId, submitted>>
       ELSE IF TtsResp(text).code = 503 THEN
          UNCHANGED <<jobs, queue, clock, nextId, submitted>>
       ELSE
          AddJob(text)
    /\ UNCHANGED <<proc, adding, workers, files, tasks, lpc, completed_jobs, deleted>>

\* submit "only blocks (briefly) on the shared-state lock" (specification,
\* section 5): the handler has accepted the text, passed the capacity check
\* and built the TTSRequest with the stripped text, and its add_job waits
\* for the lock; the event loop goes on with other requests.  Whether
\* add_job ever waits is not decided by routes.py, so a submission takes
\* either this step or TtsEndpoint
TtsSuspend(text) ==
    /\ lpc = "idle"
    /\ TtsResp(text).code = 200
    /\ adding' = Append(adding, Strip(text))
    /\ UNCHANGED <<proc, jobs, queue, workers, files, tasks, clock, nextId, lpc,
                   completed_jobs, submitted, deleted>>

\* an add_job that waited for the lock gets it: the record is added and the
\* handler returns the job id
TtsResume ==
    /\ lpc = "idle"
    /\ adding # << >>
    /\ AddJob(Head(adding))
    /\ adding' = Tail(adding)
    /\ UNCHANGED <<proc, workers, files, tasks, lpc, completed_jobs, deleted>>

(* ------------------ GET /tts/status/{job_id} (get_job_status) ----------- *)

StatusMessage(status) ==
    IF status = PROCESSING THEN "Audio is being processed" ELSE "Audio is ready"

\* variant: the in-memory record is asked before the audio directory
StatusRespMemoryFirst(j) ==
    IF ManagerStatus(j) # "none" THEN
        [ code |-> 200, job_id |-> j, status |-> ManagerStatus(j),
          message |-> StatusMessage(ManagerStatus(j)) ]
    ELSE IF AudioExists(j) THEN
        [ code |-> 200, job_id |-> j, status |-> COMPLETED, message |-> "Audio is ready" ]
    ELSE
        [ code |-> 404, job_id |-> j, status |-> "", message |-> "Job not found" ]

\* variant: only the audio directory is asked
StatusRespFilesOnly(j) ==
    IF AudioExists(j) THEN
        [ code |-> 200, job_id |-> j, status |-> COMPLETED, message |-> "Audio is ready" ]
    ELSE
        [ code |-> 404, job_id |-> j, status |-> "", message |-> "Job not found" ]

\* the response of GET /tts/status/{job_id}
StatusResp(j) ==
    IF AudioExists(j) THEN
        [ code |-> 200, job_id |-> j, status |-> COMPLETED, message |-> "Audio is ready" ]
    ELSE IF ManagerStatus(j) = "none" THEN
        [ code |-> 404, job_id |-> j, status |-> "", message |-> "Job not found" ]
    ELSE
        [ code |-> 200, job_id |-> j, status |-> ManagerStatus(j),
          message |-> StatusMessage(ManagerStatus(j)) ]

\* the handler looks up and answers; nothing is written
GetJobStatus(j) ==
    /\ lpc = "idle"
    /\ UNCHANGED vars

(* -------------------- GET /tts/audio/{job_id} (get_audio) --------------- *)

\* hash(job_id): Python's hash of a str, keyed by the key the process drew
\* when it started; the same in one process, another under another key
StrHash(seed, j) == << seed, j >>

\* response.headers["ETag"] = f'"{hash(job_id)}"'
ETag(j) == << "\"", StrHash(proc.seed, j), "\"" >>

\* variant: a file of exactly the minimum size counts as incomplete
FetchRespStrict(j) ==
    IF ~AudioExists(j) THEN
        [ code |-> 404, job_id |-> j, size |-> 0, etag |-> << >> ]
    ELSE IF files[j].size = 0 \/ files[j].size <= MinAudioBytes THEN
        [ code |-> 422, job_id |-> j, size |-> 0, etag |-> << >> ]
    ELSE
        [ code |-> 200, job_id |-> j, size |-> files[j].size, etag |-> ETag(j) ]

\* variant: the size of the file is not looked at
FetchRespAnySize(j) ==
    IF ~AudioExists(j) THEN
        [ code |-> 404, job_id |-> j, size |-> 0, etag |-> << >> ]
    ELSE
        [ code |-> 200, job_id |-> j, size |-> files[j].size, etag |-> ETag(j) ]

\* the response of GET /tts/audio/{job_id}
FetchResp(j) ==
    IF ~AudioExists(j) THEN
        [ code |-> 404, job_id |-> j, size |-> 0, etag |-> << >> ]
    ELSE IF files[j].size = 0 \/ files[j].size < MinAudioBytes THEN
        [ code |-> 422, job_id |-> j, size |-> 0, etag |-> << >> ]
    ELSE
        [ code |-> 200, job_id |-> j, size |-> files[j].size, etag |-> ETag(j) ]

\* variant: a truncated file is removed when it is found
GetAudioRepair(j) ==
    /\ lpc = "idle"
    /\ files' = IF FetchResp(j).code = 422 THEN RemoveRecord(files, j) ELSE files
    /\ UNCHANGED <<proc, adding, jobs, queue, workers, tasks, clock, nextId, lpc, completed_jobs,
                   submitted, deleted>>

\* the handler reads the file and answers; nothing is written
GetAudio(j) ==
    /\ lpc = "idle"
    /\ UNCHANGED vars

(* ------------------ DELETE /tts/audio/{job_id} (delete_audio) ----------- *)

\* the response of DELETE /tts/audio/{job_id}
DeleteResp(j) ==
    IF ~AudioExists(j) THEN [ code |-> 404, job_id |-> j ]
    ELSE [ code |-> 200, job_id |-> j ]

\* variant: the cleanup of the record is not scheduled
DeleteAudioNoCleanup(j) ==
    /\ lpc = "idle"
    /\ IF DeleteResp(j).code = 404 THEN
          UNCHANGED <<files, deleted>>
       ELSE
          /\ files' = RemoveRecord(files, j)
          /\ deleted' = deleted \cup {j}
    /\ UNCHANGED <<proc, adding, jobs, queue, workers, tasks, clock, nextId, lpc, completed_jobs,
                   submitted>>

\* variant: the test for the in-memory record is the wrong way round
DeleteAudioCleanupUnknown(j) ==
    /\ lpc = "idle"
    /\ IF DeleteResp(j).code = 404 THEN
          UNCHANGED <<files, tasks, deleted>>
       ELSE
          /\ files' = RemoveRecord(files, j)
          /\ tasks' = IF j \notin DOMAIN jobs THEN tasks \cup {j} ELSE tasks
          /\ deleted' = deleted \cup {j}
    /\ UNCHANGED <<proc, adding, jobs, queue, workers, clock, nextId, lpc, completed_jobs,
                   submitted>>

\* variant: the cleanup is scheduled before the file is looked for
DeleteAudioEagerCleanup(j) ==
    /\ lpc = "idle"
    /\ tasks' = IF j \in DOMAIN jobs THEN tasks \cup {j} ELSE tasks
    /\ IF DeleteResp(j).code = 404 THEN
          UNCHANGED <<files, deleted>>
       ELSE
          /\ files' = RemoveRecord(files, j)
          /\ deleted' = deleted \cup {j}
    /\ UNCHANGED <<proc, adding, jobs, queue, workers, clock, nextId, lpc, completed_jobs,
                   submitted>>

DeleteAudio(j) ==
    /\ lpc = "idle"
    /\ IF DeleteResp(j).code = 404 THEN
          UNCHANGED <<files, tasks, deleted>>
       ELSE
          \* os.remove(audio_path)
          /\ files' = RemoveRecord(files, j)
          \* if job_id in job_manager.jobs: background_tasks.add_task(cleanup_job, job_id)
          /\ tasks' = IF j \in DOMAIN jobs THEN tasks \cup {j} ELSE tasks
          /\ deleted' = deleted \cup {j}
    /\ UNCHANGED <<proc, adding, jobs, queue, workers, clock, nextId, lpc, completed_jobs,
                   submitted>>

\* the table after job_manager.cleanup_job(job_id)
CleanedUp(tbl, j) == RemoveRecord(tbl, j)

\* the background task scheduled by delete_audio runs
CleanupJob(j) ==
    /\ j \in tasks
    /\ tasks' = tasks \ {j}
    /\ jobs' = CleanedUp(jobs, j)
    /\ UNCHANGED <<proc, adding, queue, workers, files, clock, nextId, lpc, completed_jobs,
                   submitted, deleted>>

(* ------------------------------ workers -------------------------------- *)

\* variant: the newest job first
NextJobLast(q) == q[Len(q)]

\* the job a worker takes next: the head of the pending queue
NextJob(q) == Head(q)

\* variant: the claimed job stays in the pending queue
WorkerClaimKeep(w) ==
    /\ workers[w].pc = "idle"
    /\ queue # << >>
    /\ workers' = [ workers EXCEPT ![w] = [ pc |-> "synth", job |-> NextJob(queue) ] ]
    /\ queue' = queue
    /\ jobs' = SetStatus(jobs, NextJob(queue), PROCESSING)
    /\ UNCHANGED <<proc, adding, files, tasks, clock, nextId, lpc, completed_jobs, submitted, deleted>>

\* a worker claims a job: QUEUED -> PROCESSING
WorkerClaim(w) ==
    /\ workers[w].pc = "idle"
    /\ queue # << >>
    /\ workers' = [ workers EXCEPT ![w] = [ pc |-> "synth", job |-> NextJob(queue) ] ]
    /\ queue' = SelectSeq(queue, LAMBDA k : k # NextJob(queue))
    /\ jobs' = SetStatus(jobs, NextJob(queue), PROCESSING)
    /\ UNCHANGED <<proc, adding, files, tasks, clock, nextId, lpc, completed_jobs, submitted, deleted>>

\* the size of the audio the engine returns for a text: never below the
\* size of a plausible file
AudioSize(text) == MinAudioBytes - 1 + Len(text)

\* variant: the audio is written straight to <job_id>.mp3, so the file is
\* there from the first byte on
WorkerSynthInPlace(w) ==
    /\ workers[w].pc = "synth"
    /\ files' = AddRecord(files, workers[w].job, [ size |-> 1, mtime |-> clock ])
    /\ workers' = [ workers EXCEPT ![w].pc = "writing" ]
    /\ UNCHANGED <<proc, adding, jobs, queue, tasks, clock, nextId, lpc, completed_jobs,
                   submitted, deleted>>

\* the engine returned audio and the worker starts to write it to a
\* temporary location, which is not part of the audio directory
WorkerSynth(w) ==
    /\ workers[w].pc = "synth"
    /\ workers' = [ workers EXCEPT ![w].pc = "writing" ]
    /\ UNCHANGED <<proc, adding, jobs, queue, files, tasks, clock, nextId, lpc, completed_jobs,
                   submitted, deleted>>

\* all bytes are written and the file is renamed to <job_id>.mp3 in one step
WorkerWrite(w) ==
    /\ workers[w].pc = "writing"
    /\ files' = AddRecord(files, workers[w].job,
                          [ size |-> AudioSize(jobs[workers[w].job].text), mtime |-> clock ])
    /\ workers' = [ workers EXCEPT ![w].pc = "written" ]
    /\ UNCHANGED <<proc, adding, jobs, queue, tasks, clock, nextId, lpc, completed_jobs,
                   submitted, deleted>>

\* the worker records the success: PROCESSING -> COMPLETED
WorkerComplete(w) ==
    /\ workers[w].pc = "written"
    /\ jobs' = SetStatus(jobs, workers[w].job, COMPLETED)
    /\ workers' = [ workers EXCEPT ![w] = [ pc |-> "idle", job |-> UnknownId ] ]
    /\ UNCHANGED <<proc, adding, queue, files, tasks, clock, nextId, lpc, completed_jobs, submitted, deleted>>

\* variant: a failed job goes back to the queue
WorkerFailRetry(w) ==
    /\ workers[w].pc \in {"synth", "writing"}
    /\ jobs' = SetStatus(jobs, workers[w].job, QUEUED)
    /\ queue' = Append(queue, workers[w].job)
    /\ workers' = [ workers EXCEPT ![w] = [ pc |-> "idle", job |-> UnknownId ] ]
    /\ UNCHANGED <<proc, adding, files, tasks, clock, nextId, lpc, completed_jobs, submitted, deleted>>

\* variant: the worker gives up the job without writing the status back
WorkerFailSilent(w) ==
    /\ workers[w].pc \in {"synth", "writing"}
    /\ workers' = [ workers EXCEPT ![w] = [ pc |-> "idle", job |-> UnknownId ] ]
    /\ UNCHANGED <<proc, adding, jobs, queue, files, tasks, clock, nextId, lpc, completed_jobs,
                   submitted, deleted>>

\* the engine failed, or the write did and the temporary file is dropped:
\* PROCESSING -> FAILED, nothing is stored
WorkerFail(w) ==
    /\ workers[w].pc \in {"synth", "writing"}
    /\ jobs' = SetStatus(jobs, workers[w].job, FAILED)
    /\ workers' = [ workers EXCEPT ![w] = [ pc |-> "idle", job |-> UnknownId ] ]
    /\ UNCHANGED <<proc, adding, queue, files, tasks, clock, nextId, lpc, completed_jobs, submitted, deleted>>

(* -------------------- GET /tts/jobs (get_all_jobs) ---------------------- *)

\* every id a file or a record can have, in directory order
AllIds == [ i \in 1..(MaxJobs + MaxOld) |-> IF i <= MaxJobs THEN i ELSE OldBase + i - MaxJobs ]

\* load_jobs(): one summary per file of the audio directory, the job id and
\* the completion inferred from the file, no in-memory text
CompletedEntry(j) ==
    [ job_id |-> j, status |-> COMPLETED, audio_exists |-> TRUE ]

LoadJobs ==
    LET ids == SelectSeq(AllIds, LAMBDA j : j \in DOMAIN files)
    IN  [ i \in 1..Len(ids) |-> CompletedEntry(ids[i]) ]

\* the summary of an in-memory job
ActiveEntry(j) ==
    [ job_id |-> j, status |-> jobs[j].status,
      created_at |-> IsoFormat(jobs[j].created_at),
      audio_exists |-> FALSE, text |-> Preview(jobs[j].text) ]

\* every id a record can have, in the order job_manager.jobs gets them
TableIds == [ i \in 1..MaxJobs |-> i ]

\* variant: every in-memory job, also one with an audio file
ActiveJobsAll ==
    LET ids == SelectSeq(TableIds, LAMBDA j : j \in DOMAIN jobs)
    IN  [ i \in 1..Len(ids) |-> ActiveEntry(ids[i]) ]

\* the in-memory jobs without an audio file, in table order
ActiveJobs ==
    LET ids == SelectSeq(TableIds, LAMBDA j : j \in DOMAIN jobs /\ ~AudioExists(j))
    IN  [ i \in 1..Len(ids) |-> ActiveEntry(ids[i]) ]

\* x.get("created_at", ""): the sort key of an entry, the empty string for
\* an entry without the field
SortKey(e) == IF "created_at" \in DOMAIN e THEN e.created_at ELSE << >>

\* the largest of a non-empty set of created_at strings, in string order
RECURSIVE Latest(_)
Latest(keys) ==
    LET k == CHOOSE x \in keys : TRUE
        rest == keys \ {k}
    IN  IF rest = {} THEN k
        ELSE LET m == Latest(rest) IN IF StrLess(m, k) THEN k ELSE m

\* a stable sort by descending key: the entries with the largest key in
\* their given order, then the rest sorted the same way
RECURSIVE NewestFirst(_, _)
NewestFirst(s, keys) ==
    IF keys = {} THEN << >>
    ELSE LET top == Latest(keys)
         IN  SelectSeq(s, LAMBDA e : SortKey(e) = top) \o NewestFirst(s, keys \ {top})

\* all_jobs.sort(key=lambda x: x.get("created_at", ""), reverse=True)
SortNewestFirst(s) == NewestFirst(s, { SortKey(s[i]) : i \in 1..Len(s) })

\* all_jobs[:50]
Truncate(s) == IF Len(s) > ListLimit THEN SubSeq(s, 1, ListLimit) ELSE s

\* all_jobs = completed_jobs + active_jobs
AllJobs == completed_jobs \o ActiveJobs

\* the response of GET /tts/jobs, once load_jobs() has returned
ListResp == Truncate(SortNewestFirst(AllJobs))

\* completed_jobs = load_jobs()
GetAllJobsLoad ==
    /\ lpc = "idle"
    /\ completed_jobs' = LoadJobs
    /\ lpc' = "loaded"
    /\ UNCHANGED <<proc, adding, jobs, queue, workers, files, tasks, clock, nextId, submitted, deleted>>

\* the scan of job_manager.jobs, the sort and the return
GetAllJobsReturn ==
    /\ lpc = "loaded"
    /\ completed_jobs' = << >>
    /\ lpc' = "idle"
    /\ UNCHANGED <<proc, adding, jobs, queue, workers, files, tasks, clock, nextId, submitted, deleted>>

\* the process is stopped and started again: the job table, the queue, the
\* workers and the pending background tasks are gone, the audio directory
\* stays, and the new process draws its own hash key
Restart ==
    /\ proc.run < MaxRestarts
    /\ \E seed \in HashSeeds : proc' = [ run |-> proc.run + 1, seed |-> seed ]
    /\ jobs' = << >>
    /\ queue' = << >>
    /\ workers' = [ w \in Workers |-> [ pc |-> "idle", job |-> UnknownId ] ]
    /\ tasks' = {}
    /\ lpc' = "idle"
    /\ completed_jobs' = << >>
    /\ adding' = << >>
    /\ UNCHANGED <<files, clock, nextId, submitted, deleted>>

\* the exploration stops issuing job ids after MaxJobs: a submission is
\* explored while an id is left for it and for every add_job that waits
IdsLeft == nextId + Len(adding) <= MaxJobs

Next ==
    \/ \E text \in Texts : (TtsResp(text).code = 200 => IdsLeft) /\ TtsEndpoint(text)
    \/ \E text \in Texts : IdsLeft /\ Len(adding) < MaxAdding /\ TtsSuspend(text)
    \/ TtsResume
    \/ \E j \in QueryIds : GetJobStatus(j)
    \/ \E j \in QueryIds : GetAudio(j)
    \/ \E j \in QueryIds : DeleteAudio(j)
    \/ \E j \in QueryIds : CleanupJob(j)
    \/ \E w \in Workers : WorkerClaim(w)
    \/ \E w \in Workers : WorkerSynth(w)
    \/ \E w \in Workers : WorkerWrite(w)
    \/ \E w \in Workers : WorkerComplete(w)
    \/ \E w \in Workers : WorkerFail(w)
    \/ GetAllJobsLoad
    \/ GetAllJobsReturn

Spec == Init /\ [][Next]_vars

\* the workers keep running, the engine returns, a scheduled background
\* task is run, and a suspended add_job goes on
Fairness ==
    /\ WF_vars(TtsResume)
    /\ \A w \in 1..SmallPool : WF_vars(WorkerClaim(w))
    /\ \A w \in 1..SmallPool : WF_vars(WorkerSynth(w) \/ WorkerWrite(w) \/ WorkerFail(w))
    /\ \A w \in 1..SmallPool : WF_vars(WorkerComplete(w))
    /\ \A j \in QueryIds \ {UnknownId} : WF_vars(CleanupJob(j))

\* a small directory with a truncated file
FairInit == Start({ OldStore(2, MinAudioBytes - 1) }, {0}, SmallPool)

FairSpec == FairInit /\ [][Next]_vars /\ Fairness

\* the service over an audio directory with more files than a listing shows
ListSpec == ListInit /\ [][Next]_vars

\* the service with the larger worker pool, over an empty directory
PoolInit == Start({ OldStore(0, 0) }, {0}, LargePool)

PoolSpec == PoolInit /\ [][Next]_vars

\* the service over several runs of the process
NextRestart == Next \/ Restart

RestartInit == Start({ OldStore(2, MinAudioBytes - 1) }, HashSeeds, SmallPool)

RestartSpec == RestartInit /\ [][NextRestart]_vars

(* ------------------------------ properties ----------------------------- *)

Range(q) == { q[i] : i \in 1..Len(q) }

issued == Range(submitted)

\* the ids status, fetch and delete are asked about: those of the requests,
\* of the in-memory jobs and of the audio files
KnownIds == QueryIds \cup DOMAIN jobs \cup DOMAIN files

\* k was submitted before j
SubmittedBefore(k, j) ==
    \E a, b \in 1..Len(submitted) : a < b /\ submitted[a] = k /\ submitted[b] = j

ValidTexts == { text \in Texts : ~TextMissing(text) }

\* C1: a submission with a non-empty text made while queue_size() is above
\* max_concurrent*2 gets the 503 response, and the job table and the pending
\* queue stay as they were.
C1_AdmissionControl ==
    /\ [](QueueSize > max_concurrent * 2
          => \A text \in ValidTexts :
                /\ TtsResp(text).code = 503
                /\ TtsResp(text).queue_size = QueueSize)
    /\ [][ \A text \in ValidTexts :
             (QueueSize > max_concurrent * 2 /\ (TtsEndpoint(text) \/ TtsSuspend(text)))
             => (jobs' = jobs /\ queue' = queue /\ nextId' = nextId /\ adding' = adding) ]_vars

\* the queue is over the limit and a submission is refused
C1_Witness ==
    /\ Len(queue) = max_concurrent * 2
    /\ QueueSize > max_concurrent * 2
    /\ \A text \in ValidTexts : TtsResp(text).code = 503

\* C2: with max_concurrent*2 + 1 unfinished jobs a valid submission gets the
\* capacity error; a job that completes or fails lowers queue_size by one; and
\* with max_concurrent*2 unfinished jobs a valid submission is accepted and
\* returns the id of a new QUEUED job.
C2_BackpressureRecovery ==
    /\ [](\A text \in ValidTexts :
             /\ QueueSize = max_concurrent * 2 + 1 => TtsResp(text).code = 503
             /\ QueueSize = max_concurrent * 2
                => (TtsResp(text).code = 200 /\ TtsResp(text).job_id \notin DOMAIN jobs))
    /\ [][ /\ \A text \in ValidTexts :
                (TtsEndpoint(text) /\ QueueSize = max_concurrent * 2)
                => /\ TtsResp(text).job_id \in DOMAIN jobs'
                   /\ jobs'[TtsResp(text).job_id].status = QUEUED
                   /\ QueueSize' = max_concurrent * 2 + 1
           /\ TtsResume
                => /\ nextId \notin DOMAIN jobs
                   /\ nextId \in DOMAIN jobs'
                   /\ jobs'[nextId].status = QUEUED
           /\ \A w \in Workers :
                ((WorkerComplete(w) \/ WorkerFail(w)) /\ workers[w].job \in DOMAIN jobs)
                => QueueSize' = QueueSize - 1 ]_vars

\* the file of the first job was written when max_concurrent*2 + 1 jobs had
\* been added and none had finished, that job is COMPLETED, and the job of a
\* submission accepted after the write is queued
C2_Witness ==
    /\ adding = << >>
    /\ Len(submitted) = max_concurrent * 2 + 2
    /\ ManagerStatus(submitted[1]) = COMPLETED
    /\ AudioExists(submitted[1])
    /\ files[submitted[1]].mtime = ClockStart + max_concurrent * 2 + 1
    /\ \A i \in 2..Len(submitted) : ManagerStatus(submitted[i]) = QUEUED
    /\ jobs[submitted[Len(submitted)]].created_at = ClockStart + max_concurrent * 2 + 1
    /\ QueueSize = max_concurrent * 2 + 1

\* C3: whenever an audio file exists for a job id, the status endpoint
\* answers COMPLETED for it, whatever the in-memory record says and also
\* without any record.
C3_StatusAuthority ==
    \A j \in KnownIds :
        AudioExists(j)
        => LET r == StatusResp(j) IN r.code = 200 /\ r.status = COMPLETED

\* one file whose record still says PROCESSING, another without a record
C3_Witness ==
    /\ \E j \in DOMAIN files : ManagerStatus(j) = PROCESSING
    /\ \E j \in DOMAIN files : ManagerStatus(j) = "none"

\* C4 as stated: a fresh id, and QUEUED or PROCESSING in every later state
\* without an audio file.
C4_Original ==
    /\ \A text \in ValidTexts :
          TtsResp(text).code = 200 => TtsResp(text).job_id \notin issued
    /\ \A j \in issued :
          ~AudioExists(j) => StatusResp(j).status \in {QUEUED, PROCESSING}

\* C4 amended: the id a submission returns was never issued before, and while
\* a job has no audio file, none of its files was deleted and it has not
\* failed, the status endpoint answers QUEUED or PROCESSING.
C4_FreshIdThenPending ==
    /\ \A text \in ValidTexts :
          TtsResp(text).code = 200
          => TtsResp(text).job_id \notin issued \cup DOMAIN files \cup DOMAIN jobs
    /\ \A j \in issued :
          (~AudioExists(j) /\ j \notin deleted /\ ManagerStatus(j) # FAILED)
          => (StatusResp(j).code = 200 /\ StatusResp(j).status \in {QUEUED, PROCESSING})

\* one job queued and one being synthesised, neither with a file, while
\* another submission would be accepted
C4_Witness ==
    /\ \E j \in issued : ~AudioExists(j) /\ StatusResp(j).status = QUEUED
    /\ \E j \in issued : ~AudioExists(j) /\ StatusResp(j).status = PROCESSING
    /\ \E text \in ValidTexts : TtsResp(text).code = 200

\* C5: when a job moves from QUEUED to PROCESSING, no job submitted before it
\* is still QUEUED.
C5_Fifo ==
    [][ \A j \in DOMAIN jobs :
          (jobs[j].status = QUEUED /\ j \in DOMAIN jobs' /\ jobs'[j].status = PROCESSING)
          => \A k \in DOMAIN jobs :
                SubmittedBefore(k, j) => jobs[k].status # QUEUED ]_vars

\* a worker holds a job while two later ones wait in submission order
C5_Witness ==
    \E w \in Workers :
        /\ workers[w].pc = "synth"
        /\ Len(queue) >= 2
        /\ SubmittedBefore(workers[w].job, queue[1])
        /\ SubmittedBefore(queue[1], queue[2])

StatusMoves ==
    { <<QUEUED, PROCESSING>>, <<PROCESSING, COMPLETED>>, <<PROCESSING, FAILED>> }

\* C6: a record's status only moves QUEUED -> PROCESSING -> COMPLETED or
\* FAILED; a COMPLETED or FAILED record keeps its status, is not put on the
\* queue and is not taken by a worker again; and a FAILED job is reported as
\* FAILED by the status endpoint as long as its record is not cleaned up.
C6_TerminalFailures ==
    [][ \A j \in DOMAIN jobs :
          /\ j \in DOMAIN jobs'
             => \/ jobs'[j].status = jobs[j].status
                \/ <<jobs[j].status, jobs'[j].status>> \in StatusMoves
          /\ jobs[j].status \in {COMPLETED, FAILED}
             => /\ j \in DOMAIN jobs' => jobs'[j].status = jobs[j].status
                /\ j \notin Range(queue')
                /\ \A w \in Workers : workers'[w].job # j
          /\ j \in Range(queue') => (j \in Range(queue) /\ jobs[j].status = QUEUED)
          /\ (\E w \in Workers : workers'[w].job = j /\ workers[w].job # j)
             => jobs[j].status = QUEUED
          /\ jobs[j].status = FAILED
             => \/ CleanupJob(j)
                \/ (StatusResp(j).status = FAILED /\ StatusResp(j)'.status = FAILED) ]_vars

\* a job has failed, is still reported as FAILED, and the worker has gone on
\* to a later job
C6_Witness ==
    \E j \in DOMAIN jobs :
        /\ jobs[j].status = FAILED
        /\ StatusResp(j).status = FAILED
        /\ \E w \in Workers : workers[w].pc = "synth" /\ SubmittedBefore(j, workers[w].job)
        /\ \E k \in DOMAIN jobs : jobs[k].status = COMPLETED
\* C7: with the workers running, every admitted (QUEUED) job that does not
\* fail is eventually reported COMPLETED by the status endpoint; while the
\* audio file of a job exists, status answers COMPLETED and fetch returns at
\* least MinAudioBytes bytes; and the file goes away only by a delete.
C7_CompletesAndFetches ==
    /\ \A j \in NewIds :
          (ManagerStatus(j) = QUEUED)
          ~> (StatusResp(j).status = COMPLETED \/ ManagerStatus(j) = FAILED)
    /\ [](\A j \in issued :
             AudioExists(j)
             => /\ StatusResp(j).status = COMPLETED
                /\ FetchResp(j).code = 200
                /\ FetchResp(j).size >= MinAudioBytes)
    /\ [][ \A j \in issued :
             (AudioExists(j) /\ j \notin DOMAIN files') => DeleteAudio(j) ]_vars

\* a job went through the queue and a worker, and is reported COMPLETED with
\* its audio at hand
C7_Witness ==
    \E j \in issued :
        /\ ManagerStatus(j) = COMPLETED
        /\ StatusResp(j).status = COMPLETED
        /\ FetchResp(j).code = 200
        /\ FetchResp(j).size >= MinAudioBytes

\* C8: once a delete has removed the audio file of a job, fetch answers 404
\* for that job from then on; the cleanup the delete scheduled eventually
\* runs; and once it has run the status endpoint answers 404.
C8_DeleteThenCleanup ==
    /\ [](\A j \in deleted : FetchResp(j).code = 404)
    /\ [](\A j \in deleted : j \notin tasks => StatusResp(j).code = 404)
    /\ \A j \in QueryIds \ {UnknownId} :
          (j \in deleted) ~> (j \notin tasks /\ StatusResp(j).code = 404)

\* the file of a completed job was deleted, the cleanup has run, and both
\* fetch and status answer 404
C8_Witness ==
    \E j \in deleted \cap issued :
        /\ j \notin tasks
        /\ FetchResp(j).code = 404
        /\ StatusResp(j).code = 404
        /\ \A w \in Workers : workers[w].job # j

\* C9: the list has at most ListLimit entries, and of two in-memory jobs
\* in it the one listed first was not created before the other.
C9_ListCapAndOrder ==
    lpc = "loaded" =>
        LET r == ListResp
            active == { i \in 1..Len(r) : ~r[i].audio_exists }
        IN  /\ Len(r) <= ListLimit
            /\ \A a, b \in active :
                  a < b => jobs[r[a].job_id].created_at >= jobs[r[b].job_id].created_at

\* the job ids of a list, without repetition
JobIds(r) == { r[i].job_id : i \in 1..Len(r) }

\* C10: no two entries of the list have the same job id, and an in-memory
\* job whose audio file exists is not listed as an active job, also when the
\* file was written after load_jobs() had returned.
C10_NoDuplicates ==
    lpc = "loaded"
    => LET all == AllJobs
           r == ListResp
       IN  /\ Cardinality(JobIds(r)) = Len(r)
           /\ Cardinality(JobIds(all)) = Len(all)
           /\ \A i \in 1..Len(r) :
                 (r[i].job_id \in DOMAIN jobs /\ AudioExists(r[i].job_id))
                 => r[i].audio_exists

\* a listing under way with one in-memory job listed through its file and
\* another whose file a worker wrote after load_jobs()
C10_Witness ==
    /\ lpc = "loaded"
    /\ LET r == ListResp
       IN  /\ \E i \in 1..Len(r) : r[i].job_id \in DOMAIN jobs /\ r[i].audio_exists
           /\ \E j \in DOMAIN jobs :
                 /\ AudioExists(j)
                 /\ j \notin JobIds(completed_jobs)
                 /\ j \notin JobIds(r)

\* the texts that are empty or all whitespace
BlankTexts == { text \in Texts : \A i \in 1..Len(text) : text[i] \in Whitespace }

\* C12: a submission with an empty or all-whitespace text gets the 400
\* response with no job id, also when the queue is over the limit, and the
\* step leaves the job table, the pending queue, queue_size and the id counter
\* as they were.
C12_ValidationRejection ==
    /\ [](\A text \in BlankTexts :
             /\ TtsResp(text).code = 400
             /\ TtsResp(text).job_id = UnknownId)
    /\ [][ \A text \in BlankTexts :
             (TtsEndpoint(text) \/ TtsSuspend(text))
             => /\ jobs' = jobs
                /\ queue' = queue
                /\ QueueSize' = QueueSize
                /\ nextId' = nextId
                /\ submitted' = submitted
                /\ adding' = adding ]_vars

\* blank submissions are refused with 400 both while the server has room and
\* while it is over the limit
C12_Witness ==
    /\ QueueSize > max_concurrent * 2
    /\ Cardinality(BlankTexts) >= 3
    /\ \A text \in BlankTexts : TtsResp(text).code = 400
    /\ \A text \in Texts \ BlankTexts : TtsResp(text).code = 503

\* C13: fetch answers 404 exactly when there is no audio file for the id,
\* 422 exactly when there is one of fewer than MinAudioBytes bytes, and
\* otherwise 200 with the whole file; and the handler leaves the audio
\* directory and the job table as they were.
C13_FetchClassification ==
    /\ [](\A j \in KnownIds :
             LET r == FetchResp(j)
             IN  /\ r.code \in {200, 404, 422}
                 /\ r.code = 404 <=> j \notin DOMAIN files
                 /\ r.code = 422 <=> (j \in DOMAIN files /\ files[j].size < MinAudioBytes)
                 /\ r.code = 200 => r.size = files[j].size)
    /\ [][ \A j \in QueryIds : GetAudio(j) => (files' = files /\ jobs' = jobs) ]_vars

\* a truncated file of an earlier run, the file of a job of this run and a
\* job without a file, side by side
C13_Witness ==
    /\ FetchResp(OldBase + 1).code = 422
    /\ FetchResp(OldBase + 2).code = 200
    /\ \E j \in issued : FetchResp(j).code = 200 /\ FetchResp(j).size = MinAudioBytes
    /\ \E j \in issued : FetchResp(j).code = 404 /\ ManagerStatus(j) = QUEUED
    /\ FetchResp(UnknownId).code = 404

\* C14: a delete for an id without an audio file answers 404, schedules no
\* cleanup and leaves the audio directory and the job table as they were,
\* whatever record the job table has for that id.
C14_DeleteAbsent ==
    /\ [](\A j \in KnownIds :
             ~AudioExists(j) => DeleteResp(j).code = 404)
    /\ [][ \A j \in QueryIds :
             (~AudioExists(j) /\ DeleteAudio(j))
             => /\ files' = files
                /\ tasks' = tasks
                /\ jobs' = jobs
                /\ deleted' = deleted ]_vars

\* records QUEUED, PROCESSING and FAILED without a file, for each of which a
\* delete answers 404, and no cleanup is pending
C14_Witness ==
    /\ tasks = {}
    /\ deleted = {}
    /\ \A s \in {QUEUED, PROCESSING, FAILED} :
          \E j \in KnownIds :
             ManagerStatus(j) = s /\ ~AudioExists(j) /\ DeleteResp(j).code = 404
    /\ \A j \in QueryIds : ~AudioExists(j) /\ DeleteResp(j).code = 404
    /\ \E j \in QueryIds : ManagerStatus(j) = FAILED
    /\ \E j \in QueryIds : ManagerStatus(j) = PROCESSING

\* C15: the ETag of a successful fetch depends on the job id alone: while
\* fetches of a job id keep succeeding they carry the same ETag, from one
\* step to the next and so between any two of them, a restart of the process
\* in between included.
C15_StableTag ==
    [][ \A j \in QueryIds \cup DOMAIN files :
          (FetchResp(j).code = 200 /\ FetchResp(j)'.code = 200)
          => FetchResp(j)'.etag = FetchResp(j).etag ]_vars

\* C16: a job of this run has an audio file only after its worker got the
\* audio from the engine and stored all of it; while the worker is still
\* synthesising or writing, and after a failed synthesis or write, there is no
\* file for the job.
C16_AtomicVisibility ==
    /\ \A j \in issued :
          AudioExists(j)
          => /\ files[j].size >= MinAudioBytes
             /\ j \in DOMAIN jobs
                => /\ files[j].size = AudioSize(jobs[j].text)
                   /\ jobs[j].status \in {PROCESSING, COMPLETED}
                   /\ jobs[j].status = PROCESSING
                      => \E w \in Workers :
                            workers[w].job = j /\ workers[w].pc = "written"
    /\ \A j \in DOMAIN jobs : jobs[j].status \in {QUEUED, FAILED} => ~AudioExists(j)
    /\ \A w \in Workers :
          workers[w].pc \in {"synth", "writing"} => ~AudioExists(workers[w].job)

\* one job failed, one in the middle of its write, neither with a file, and
\* one with its complete file
C16_Witness ==
    /\ \E j \in issued : ManagerStatus(j) = FAILED /\ ~AudioExists(j)
    /\ \E w \in Workers : workers[w].pc = "writing" /\ ~AudioExists(workers[w].job)
    /\ \E j \in issued :
          /\ AudioExists(j)
          /\ ManagerStatus(j) = COMPLETED
          /\ files[j].size = AudioSize(jobs[j].text)

\* the workers that hold job j
Owners(j) == { w \in Workers : workers[w].job = j }

\* C17: at most max_concurrent records are PROCESSING, every PROCESSING job
\* is held by exactly one worker, and a worker holds only a job that is
\* PROCESSING.
C17_WorkerPoolBound ==
    /\ Cardinality({ j \in DOMAIN jobs : jobs[j].status = PROCESSING }) <= max_concurrent
    /\ \A j \in DOMAIN jobs :
          jobs[j].status = PROCESSING => Cardinality(Owners(j)) = 1
    /\ \A w \in Workers :
          workers[w].pc # "idle"
          => (workers[w].job \in DOMAIN jobs => jobs[workers[w].job].status = PROCESSING)

\* a pool of several workers, each busy with a job of its own, while a job
\* waits in the queue and an earlier job has finished
C17_Witness ==
    /\ max_concurrent >= 2
    /\ Cardinality({ j \in DOMAIN jobs : jobs[j].status = PROCESSING }) = max_concurrent
    /\ \A w \in Workers : workers[w].pc # "idle" /\ Owners(workers[w].job) = {w}
    /\ \E v, w \in Workers : workers[v].pc = "synth" /\ workers[w].pc = "written"
    /\ Len(queue) >= 1
    /\ \E j \in DOMAIN jobs : jobs[j].status \in {FAILED, COMPLETED}

\* C19 as stated: whenever the status endpoint answers COMPLETED for a job
\* id, its audio file exists and fetch does not answer 404.
C19_Original ==
    \A j \in KnownIds :
        (StatusResp(j).code = 200 /\ StatusResp(j).status = COMPLETED)
        => (AudioExists(j) /\ FetchResp(j).code # 404)

\* C19 amended: whenever the status endpoint answers COMPLETED for a job id,
\* either its audio file exists and fetch does not answer 404, or a delete
\* has removed the file and the cleanup it scheduled has not run yet.
C19_StatusFetchAgree ==
    \A j \in KnownIds :
        LET r == StatusResp(j)
            f == FetchResp(j)
        IN  (r.code = 200 /\ r.status = COMPLETED)
            => \/ AudioExists(j) /\ f.code # 404
               \/ j \in deleted /\ j \in tasks /\ f.code = 404

\* one job reported COMPLETED with its file at hand, another reported
\* COMPLETED between the delete of its file and the cleanup
C19_Witness ==
    /\ \E j \in issued :
          /\ StatusResp(j).status = COMPLETED
          /\ ManagerStatus(j) = COMPLETED
          /\ FetchResp(j).code = 200
    /\ \E j \in issued :
          /\ StatusResp(j).status = COMPLETED
          /\ j \in deleted /\ j \in tasks
          /\ FetchResp(j).code = 404

\* C20: the status endpoint says "Audio is ready" only together with the
\* status COMPLETED; for a job it reports as QUEUED, PROCESSING or FAILED the
\* message is another one.
C20_MessageMatchesStatus ==
    \A j \in KnownIds :
        (StatusResp(j).code = 200 /\ StatusResp(j).message = "Audio is ready")
        => StatusResp(j).status = COMPLETED
====
